---- MODULE Spec2Model ----
(***************************************************************************)
(* TripleClient (package triple): the client endpoint of the triple        *)
(* protocol.  One client, several concurrent call flows (goroutines).      *)
(* The client's own code (NewTripleClient, Invoke, Request, Close,         *)
(* IsAvailable) is translated from the source; the http2.TripleController, *)
(* the generated stub and the helpers of pkg/common and internal/tools     *)
(* are not part of the sources at hand and are modelled from the design    *)
(* document.                                                               *)
(***************************************************************************)
EXTENDS Integers, Sequences, FiniteSets, TLC

(* ------------------------------ bounds -------------------------------- *)
NumFlows == 2          \* concurrent call flows on the one client
MaxCalls == 2          \* calls started over the client's lifetime
MaxIn == 3             \* longest argument list `in` handed to Invoke

Flows == 1..NumFlows

(* ------------------------- program constants -------------------------- *)
PBCodecName == "protobuf"        \* constant.PBCodecName
OtherCodecName == "hessian2"     \* any codec kind other than the protobuf one
CodecTypes == {PBCodecName, OtherCodecName}

Nil == "nil"                      \* the nil error
Unimplemented == "Unimplemented"  \* codes.Unimplemented
Unavailable == "Unavailable"
Internal == "Internal"

NoKey == "<none>"                 \* ctx.Value(constant.InterfaceKey) == nil
InterfaceKey == "com.example.IGreeter"
StubMethods == {"SayHello"}       \* the methods the generated stub declares
MethodNames == {"SayHello", "BigUnaryTest"}
ReplyInit == "untouched"          \* the caller's replyTarget before the call
EmptyReply == "empty"             \* a freshly allocated reply nothing was decoded into

(* ------------------------------ values -------------------------------- *)
\* common.TripleAttachment: a map; present = FALSE is the nil (absent) map.
MakeAttachment == [present |-> TRUE, kv |-> {}]

\* common.NewErrorWithAttachment(err, attachment)
NewErrorWithAttachment(err, attachment) == [err |-> err, attachment |-> attachment]

\* a reflect.Value of the argument list: a context or a plain value
Ctx(key) == [type |-> "context", v |-> key]
Val(x) == [type |-> "value", v |-> x]

\* The argument lists handed to Invoke: nothing at all, a first element that
\* is no context, a context without the interface key, or a context with it
\* followed by the arguments 1, 2, ... in this order.
Args(n) == [i \in 1..n |-> Val(i)]
InLists ==
  {<< >>, <<Val(1)>>, <<Ctx(NoKey), Val(1)>>}
    \cup {<<Ctx(InterfaceKey)>> \o Args(n) : n \in 0..(MaxIn - 1)}

VARIABLES
  codecType,     \* t.opt.CodecType
  stubBuilt,     \* t.stubInvoker is a valid reflect.Value
  methodTable,   \* the methods of t.stubInvoker
  stubStyle,     \* what the generated stub returns in slot 1
  connState,     \* http2.TripleController: the connection
  destroyCalls,  \* calls of h2Controller.Destroy()
  closeCalls,    \* calls of TripleClient.Close()
  streams,       \* http2.TripleController: the stream registry, by stream id
  started,       \* calls started so far
  pc,            \* per flow: idle / waiting / done / panicked
  call,          \* per flow: the operation in progress and its inputs
  sid,           \* per flow: the stream of its transport call (0: none)
  tres,          \* per flow: what the controller resolved its transport call with
  tcalls,        \* per flow: the transport calls made for the current call
  stubCalled,    \* per flow: bound callables invoked for the current call
  stubRes,       \* per flow: the result slots returned by the bound callable
  reply,         \* per flow: the caller's replyTarget
  outcome,       \* per flow: what the operation returned
  avail          \* per flow: what its last IsAvailable returned

vars == <<codecType, stubBuilt, methodTable, stubStyle, connState, destroyCalls,
          closeCalls, streams, started, pc, call, sid, tres, tcalls, stubCalled,
          stubRes, reply, outcome, avail>>

client == <<codecType, stubBuilt, methodTable, stubStyle>>

NilAttachment == [present |-> FALSE, kv |-> {}]
NoOutcome == [err |-> "<pending>", attachment |-> NilAttachment]
NoResult == [err |-> "<pending>", attachment |-> NilAttachment, body |-> EmptyReply]
NoSlots == [slot0 |-> EmptyReply,
            slot1 |-> [type |-> "<none>", err |-> Nil, attachment |-> NilAttachment]]
NoCall == [op |-> "<none>", methodName |-> "", in |-> << >>, path |-> "",
           arg |-> << >>, branch |-> "", afterClose |-> FALSE]

(* --------------------- http2.TripleController ------------------------- *)
\* UnaryInvoke on a destroyed controller fails fast, without a stream.
FailFast == [err |-> Unavailable, attachment |-> MakeAttachment, body |-> EmptyReply]

\* What the peer may answer on stream s: a terminal status, the attachments of
\* the trailing metadata (the correlation id of the call) and a body.
PeerResponses(s) ==
  {[err |-> e, attachment |-> [present |-> TRUE, kv |-> {<<"corr", s>>}],
    body |-> IF e = Nil THEN "pong" ELSE EmptyReply] : e \in {Nil, Internal}}

\* The outcome UnaryInvoke hands back to flow f: that of f's own stream.
UnaryInvokeResult(f) == IF sid[f] = 0 THEN FailFast ELSE streams[sid[f]].resp

\* A stream that is closed holds nothing any more.
ClosedStream == [path |-> "", params |-> << >>, state |-> "closed", resp |-> NoResult]

\* The stream that resolved last on the connection (0: none).
LastResolved ==
  LET R == {s \in 1..Len(streams) : streams[s].state \in {"responded", "aborted"}}
  IN IF R = {} THEN 0 ELSE CHOOSE s \in R : \A t \in R : t <= s

\* TripleController.IsAvailable
ControllerIsAvailable == connState = "ready"

\* TripleController.Destroy: the connection is closed, every stream still
\* open is aborted and resolves with Unavailable.
Destroyed(ss) ==
  [s \in 1..Len(ss) |->
     IF ss[s].state = "open"
       THEN [ss[s] EXCEPT !.state = "aborted", !.resp = FailFast]
       ELSE ss[s]]

(* -------------------------- generated stub ---------------------------- *)
StubStyles == {"ErrorWithAttachment", "error"}
NoStub == "<no stub>"
StubService == "org.apache.dubbo.Greeter"
StubPath(methodName) == "/" \o StubService \o "/" \o methodName

\* method.Call(in) panics unless `in` fits the stub's signature (ctx, req, opts...).
StubAccepts(in) ==
  /\ Len(in) >= 2
  /\ in[1].type = "context"
  /\ \A i \in 2..Len(in) : in[i].type = "value"

\* The request the stub sends: the arguments after the context.
StubParams(in) == [i \in 1..(Len(in) - 1) |-> in[i + 1].v]

\* The two result slots the stub returns for the transport outcome r.
StubResult(r) ==
  [slot0 |-> r.body,
   slot1 |-> IF stubStyle = "ErrorWithAttachment"
               THEN [type |-> "ErrorWithAttachment", err |-> r.err, attachment |-> r.attachment]
               ELSE [type |-> "error", err |-> r.err, attachment |-> NilAttachment]]

\* tools.ReflectResponse(in, out): out receives the value of in.
ReflectResponse(slot0, replyTarget) == slot0

(* ---------------------------- TripleClient ---------------------------- *)
\* Variant: the stub invoker is created whatever the codec.
BuildsStubAlways(ct) == TRUE

\* NewTripleClient: the stub invoker is created for the protobuf codec only.
BuildsStub(ct) == ct = PBCodecName

\* Invoke: the test that selects the typed branch.
TypedBranch(ct) == ct = PBCodecName

\* t.stubInvoker.MethodByName(methodName): the zero Value if there is no such method.
MethodByName(methodName) ==
  IF methodName \in methodTable
    THEN [valid |-> TRUE, name |-> methodName]
    ELSE [valid |-> FALSE, name |-> ""]

\* reflect.Value.IsZero: panics on the zero (invalid) Value; a method value is never nil.
IsZero(method) == IF ~method.valid THEN "panic" ELSE "false"

\* "/" + interfaceKey + "/" + methodName
DynPath(interfaceKey, methodName) == "/" \o interfaceKey \o "/" \o methodName

\* Variant: the loop does not skip index 0, the context.
ReqParamsAll(in) == [i \in 1..Len(in) |-> in[i].v]

\* reqParams: every element of `in` but the first, in order.
ReqParams(in) == [i \in 1..(Len(in) - 1) |-> in[i + 1].v]

\* ctx := in[0].Interface().(context.Context); ctx.Value(InterfaceKey).(string):
\* an index out of range or a failed type assertion panics.
DynamicPanics(in) ==
  \/ Len(in) = 0
  \/ in[1].type # "context"
  \/ in[1].v = NoKey

\* Variant: the outcome is read from a slot all calls share, the one of the
\* stream that resolved last.
RequestShared(f) ==
  IF LastResolved # 0 THEN streams[LastResolved].resp ELSE UnaryInvokeResult(f)

\* Request: returns what UnaryInvoke returned for this call.
Request(f) == UnaryInvokeResult(f)

\* Variant: slot 0 is copied into replyTarget before slot 1 is looked at.
TypedOutcomeCopyFirst(res, replyTarget) ==
  LET attachment == MakeAttachment
      err == res.slot1.err
  IN [ret |-> NewErrorWithAttachment(err, IF res.slot1.type = "ErrorWithAttachment" /\ err = Nil
                                            THEN res.slot1.attachment ELSE attachment),
      reply |-> ReflectResponse(res.slot0, replyTarget)]

\* Variant: the attachments of the stub's ErrorWithAttachment are never taken over.
TypedOutcomeDropAttachment(res, replyTarget) ==
  LET attachment == MakeAttachment
      err == res.slot1.err
  IN [ret |-> NewErrorWithAttachment(err, attachment),
      reply |-> IF err # Nil THEN replyTarget ELSE ReflectResponse(res.slot0, replyTarget)]

\* Variant: the attachments of the stub's ErrorWithAttachment are taken over
\* before its error is looked at.
TypedOutcomeKeepAttachment(res, replyTarget) ==
  LET err == res.slot1.err
  IN [ret |-> NewErrorWithAttachment(err, IF res.slot1.type = "ErrorWithAttachment"
                                            THEN res.slot1.attachment ELSE MakeAttachment),
      reply |-> IF err # Nil THEN replyTarget ELSE ReflectResponse(res.slot0, replyTarget)]

\* Invoke, typed branch, after method.Call(in) returned res: the value Invoke
\* returns and the replyTarget it leaves behind.
TypedOutcome(res, replyTarget) ==
  LET attachment == MakeAttachment IN
  IF res.slot1.type = "ErrorWithAttachment"
    THEN IF res.slot1.err # Nil
           THEN [ret |-> NewErrorWithAttachment(res.slot1.err, attachment),
                 reply |-> replyTarget]
           ELSE [ret |-> NewErrorWithAttachment(Nil, res.slot1.attachment),
                 reply |-> ReflectResponse(res.slot0, replyTarget)]
    ELSE IF res.slot1.err # Nil
           THEN [ret |-> NewErrorWithAttachment(res.slot1.err, attachment),
                 reply |-> replyTarget]
           ELSE [ret |-> NewErrorWithAttachment(Nil, attachment),
                 reply |-> ReflectResponse(res.slot0, replyTarget)]

(* ------------------------------- Init --------------------------------- *)
\* The state NewTripleClient leaves behind, for either codec kind and either
\* generation of the stub.
Init ==
  /\ codecType \in CodecTypes
  /\ stubBuilt = BuildsStub(codecType)
  /\ methodTable = IF BuildsStub(codecType) THEN StubMethods ELSE {}
  /\ stubStyle \in IF BuildsStub(codecType) THEN StubStyles ELSE {NoStub}
  /\ connState = "ready"
  /\ destroyCalls = 0
  /\ closeCalls = 0
  /\ streams = << >>
  /\ started = 0
  /\ pc = [f \in Flows |-> "idle"]
  /\ call = [f \in Flows |-> NoCall]
  /\ sid = [f \in Flows |-> 0]
  /\ tres = [f \in Flows |-> NoResult]
  /\ tcalls = [f \in Flows |-> << >>]
  /\ stubCalled = [f \in Flows |-> 0]
  /\ stubRes = [f \in Flows |-> NoSlots]
  /\ reply = [f \in Flows |-> ReplyInit]
  /\ outcome = [f \in Flows |-> NoOutcome]
  /\ avail = [f \in Flows |-> "unknown"]

(* ------------------------------ steps --------------------------------- *)
\* Flow f's operation c panics before it returns anything.
Panics(f, c) ==
  /\ pc' = [pc EXCEPT ![f] = "panicked"]
  /\ call' = [call EXCEPT ![f] = c]
  /\ UNCHANGED <<streams, sid, tres, tcalls, stubCalled, stubRes, reply, outcome>>

\* Flow f's operation c returns ret at once.
Returns(f, c, ret) ==
  /\ pc' = [pc EXCEPT ![f] = "done"]
  /\ call' = [call EXCEPT ![f] = c]
  /\ outcome' = [outcome EXCEPT ![f] = ret]
  /\ UNCHANGED <<streams, sid, tres, tcalls, stubCalled, stubRes, reply>>

\* h2Controller.UnaryInvoke(ctx, path, arg, reply) is entered by flow f: a new
\* stream carries the request, unless the controller is destroyed already.
UnaryInvoke(f, c, path, arg, viaStub) ==
  /\ pc' = [pc EXCEPT ![f] = "waiting"]
  /\ call' = [call EXCEPT ![f] = c]
  /\ tcalls' = [tcalls EXCEPT ![f] = Append(@, [path |-> path, params |-> arg])]
  /\ stubCalled' = [stubCalled EXCEPT ![f] = IF viaStub THEN @ + 1 ELSE @]
  /\ IF connState = "closed"
       THEN UNCHANGED <<streams, sid>>
       ELSE /\ streams' = Append(streams, [path |-> path, params |-> arg,
                                           state |-> "open", resp |-> NoResult])
            /\ sid' = [sid EXCEPT ![f] = Len(streams) + 1]
  /\ UNCHANGED <<tres, stubRes, reply, outcome>>

\* TripleClient.Invoke, up to the point where the call waits for the peer.
InvokeCall(f, methodName, in) ==
  /\ pc[f] = "idle"
  /\ started < MaxCalls
  /\ started' = started + 1
  /\ LET c == [NoCall EXCEPT !.op = "Invoke", !.methodName = methodName, !.in = in,
                             !.branch = IF TypedBranch(codecType) THEN "typed" ELSE "dynamic",
                             !.afterClose = closeCalls > 0]
     IN IF TypedBranch(codecType)
          THEN IF ~stubBuilt
                 THEN Panics(f, c)
                 ELSE LET method == MethodByName(methodName) IN
                      CASE IsZero(method) = "panic" -> Panics(f, c)
                        [] IsZero(method) = "true" ->
                             Returns(f, c, NewErrorWithAttachment(Unimplemented, MakeAttachment))
                        [] OTHER ->
                             IF StubAccepts(in)
                               THEN UnaryInvoke(f, c, StubPath(methodName), StubParams(in), TRUE)
                               ELSE Panics(f, c)
          ELSE IF DynamicPanics(in)
                 THEN Panics(f, c)
                 ELSE UnaryInvoke(f, [c EXCEPT !.path = DynPath(in[1].v, methodName),
                                               !.arg = ReqParams(in)],
                                  DynPath(in[1].v, methodName), ReqParams(in), FALSE)
  /\ UNCHANGED <<client, connState, destroyCalls, closeCalls, avail>>

\* TripleClient.Request, up to the point where the call waits for the peer.
RequestCall(f, path, arg) ==
  /\ pc[f] = "idle"
  /\ started < MaxCalls
  /\ started' = started + 1
  /\ UnaryInvoke(f, [NoCall EXCEPT !.op = "Request", !.path = path, !.arg = arg,
                                   !.afterClose = closeCalls > 0],
                 path, arg, FALSE)
  /\ UNCHANGED <<client, connState, destroyCalls, closeCalls, avail>>

\* The peer answers an open stream.
PeerRespond(s) ==
  /\ s \in 1..Len(streams)
  /\ streams[s].state = "open"
  /\ \E r \in PeerResponses(s) :
       streams' = [streams EXCEPT ![s].state = "responded", ![s].resp = r]
  /\ UNCHANGED <<client, connState, destroyCalls, closeCalls, started, pc, call, sid,
                 tres, tcalls, stubCalled, stubRes, reply, outcome, avail>>

\* The transport call of flow f resolves and the operation returns to its caller.
CallReturn(f) ==
  /\ pc[f] = "waiting"
  /\ call[f].op \in {"Invoke", "Request"}
  /\ sid[f] # 0 => streams[sid[f]].state \in {"responded", "aborted"}
  /\ streams' = IF sid[f] = 0 THEN streams
                ELSE [streams EXCEPT ![sid[f]] = ClosedStream]
  /\ tres' = [tres EXCEPT ![f] = UnaryInvokeResult(f)]
  /\ LET r == Request(f) IN
     IF call[f].op = "Invoke" /\ call[f].branch = "typed"
       THEN LET res == StubResult(r)
                o == TypedOutcome(res, reply[f])
            IN /\ stubRes' = [stubRes EXCEPT ![f] = res]
               /\ outcome' = [outcome EXCEPT ![f] = o.ret]
               /\ reply' = [reply EXCEPT ![f] = o.reply]
       ELSE /\ outcome' = [outcome EXCEPT ![f] = NewErrorWithAttachment(r.err, r.attachment)]
            /\ reply' = [reply EXCEPT ![f] = IF r.err = Nil THEN r.body ELSE @]
            /\ UNCHANGED stubRes
  /\ pc' = [pc EXCEPT ![f] = "done"]
  /\ UNCHANGED <<client, connState, destroyCalls, closeCalls, started, call, sid,
                 tcalls, stubCalled, avail>>

\* TripleClient.Close: logs and calls h2Controller.Destroy().
Close(f) ==
  /\ pc[f] = "idle"
  /\ started < MaxCalls
  /\ started' = started + 1
  /\ closeCalls' = closeCalls + 1
  /\ destroyCalls' = destroyCalls + 1
  /\ connState' = "closed"
  /\ streams' = Destroyed(streams)
  /\ pc' = [pc EXCEPT ![f] = "done"]
  /\ call' = [call EXCEPT ![f] = [NoCall EXCEPT !.op = "Close", !.afterClose = closeCalls > 0]]
  /\ UNCHANGED <<client, sid, tres, tcalls, stubCalled, stubRes, reply, outcome, avail>>

\* TripleClient.IsAvailable
IsAvailable(f) ==
  /\ pc[f] = "idle"
  /\ started < MaxCalls
  /\ started' = started + 1
  /\ avail' = [avail EXCEPT ![f] = IF ControllerIsAvailable THEN "true" ELSE "false"]
  /\ pc' = [pc EXCEPT ![f] = "done"]
  /\ call' = [call EXCEPT ![f] = [NoCall EXCEPT !.op = "IsAvailable",
                                                !.afterClose = closeCalls > 0]]
  /\ UNCHANGED <<client, connState, destroyCalls, closeCalls, streams, sid,
                 tres, tcalls, stubCalled, stubRes, reply, outcome>>

\* The caller of flow f takes the result (or recovers the panic) and is ready
\* for its next call, with a fresh replyTarget.
NextCall(f) ==
  /\ pc[f] \in {"done", "panicked"}
  /\ pc' = [pc EXCEPT ![f] = "idle"]
  /\ call' = [call EXCEPT ![f] = NoCall]
  /\ sid' = [sid EXCEPT ![f] = 0]
  /\ tres' = [tres EXCEPT ![f] = NoResult]
  /\ tcalls' = [tcalls EXCEPT ![f] = << >>]
  /\ stubCalled' = [stubCalled EXCEPT ![f] = 0]
  /\ stubRes' = [stubRes EXCEPT ![f] = NoSlots]
  /\ reply' = [reply EXCEPT ![f] = ReplyInit]
  /\ outcome' = [outcome EXCEPT ![f] = NoOutcome]
  /\ avail' = [avail EXCEPT ![f] = "unknown"]
  /\ UNCHANGED <<client, connState, destroyCalls, closeCalls, streams, started>>

RequestPaths == {"/com.example.IGreeter/BigUnaryTest"}
RequestArgs == {<<"req">>}

Next ==
  \/ \E f \in Flows, m \in MethodNames, in \in InLists : InvokeCall(f, m, in)
  \/ \E f \in Flows, p \in RequestPaths, a \in RequestArgs : RequestCall(f, p, a)
  \/ \E s \in 1..MaxCalls : PeerRespond(s)
  \/ \E f \in Flows : CallReturn(f)
  \/ \E f \in Flows : Close(f)
  \/ \E f \in Flows : IsAvailable(f)
  \/ \E f \in Flows : NextCall(f)

Spec == Init /\ [][Next]_vars

(* ============================ properties ============================== *)
Finished(f) == pc[f] \in {"done", "panicked"}
TypedInvoke(f) == call[f].op = "Invoke" /\ call[f].branch = "typed"
DynamicInvoke(f) == call[f].op = "Invoke" /\ call[f].branch = "dynamic"
HasKey(in) == Len(in) >= 1 /\ in[1].type = "context" /\ in[1].v # NoKey
LacksKey(in) == Len(in) >= 1 /\ in[1].type = "context" /\ in[1].v = NoKey
SlotError(f) == stubRes[f].slot1.type # "<none>" /\ stubRes[f].slot1.err # Nil
SlotNoError(f) == stubRes[f].slot1.type # "<none>" /\ stubRes[f].slot1.err = Nil

\* C1: however many times Close is called on the client, the delegation to
\* TransportController.Destroy runs exactly once; later Close calls do nothing.
C1_ReleaseExactlyOnce == closeCalls >= 1 => destroyCalls = 1

\* C2: once a Close has completed, IsAvailable returns false and every Invoke
\* or Request started afterwards returns an outcome of kind Unavailable; the
\* client never becomes available again.
C2_ClosedIsUnavailable ==
  /\ closeCalls >= 1 => ~ControllerIsAvailable
  /\ \A f \in Flows :
       /\ (pc[f] = "done" /\ call[f].op = "IsAvailable" /\ call[f].afterClose)
            => avail[f] = "false"
       /\ (Finished(f) /\ call[f].op \in {"Invoke", "Request"} /\ call[f].afterClose)
            => (pc[f] = "done" /\ outcome[f].err = Unavailable)

\* C3: in typed mode, Invoke of a method name absent from the MethodTable
\* returns an outcome of kind Unimplemented, without invoking a bound callable
\* and without any call to the TransportController.
C3_UnknownMethodUnimplemented ==
  \A f \in Flows :
    (Finished(f) /\ TypedInvoke(f) /\ call[f].methodName \notin methodTable)
      => /\ pc[f] = "done"
         /\ outcome[f].err = Unimplemented
         /\ stubCalled[f] = 0
         /\ tcalls[f] = << >>

\* C4: in dynamic mode, Invoke with a context that carries no interface key
\* returns an outcome of kind InvalidArgument before any transport contact; it
\* does not panic.
C4_MissingKeyInvalidArgument ==
  \A f \in Flows :
    (Finished(f) /\ DynamicInvoke(f) /\ LacksKey(call[f].in))
      => /\ pc[f] = "done"
         /\ outcome[f].err = "InvalidArgument"
         /\ tcalls[f] = << >>

\* C5: in dynamic mode, Invoke(methodName, [ctx, a1, ..., an]) makes exactly
\* one transport call, to the path "/" + interfaceKey + "/" + methodName, with
\* the parameters a1, ..., an in this order (no context), and returns the
\* outcome of that call unchanged.
C5_DynamicCall ==
  \A f \in Flows :
    (DynamicInvoke(f) /\ HasKey(call[f].in))
      => /\ pc[f] \in {"waiting", "done"}
         /\ Len(tcalls[f]) = 1
         /\ tcalls[f][1].path = "/" \o call[f].in[1].v \o "/" \o call[f].methodName
         /\ Len(tcalls[f][1].params) = Len(call[f].in) - 1
         /\ \A i \in 1..Len(tcalls[f][1].params) : tcalls[f][1].params[i] = i
         /\ stubCalled[f] = 0
         /\ pc[f] = "done" =>
              outcome[f] = [err |-> tres[f].err, attachment |-> tres[f].attachment]

C5_Witness ==
  \E f \in Flows :
    /\ pc[f] = "done" /\ DynamicInvoke(f)
    /\ Len(call[f].in) = 3
    /\ outcome[f].err = Nil
    /\ outcome[f].attachment.kv # {}

\* C6: in typed mode, when slot 1 of the callable's result signals an error
\* (an ErrorWithAttachment with an error, or a plain error), Invoke returns
\* that error and leaves replyTarget as it was.
C6_ErrorLeavesReply ==
  \A f \in Flows :
    (pc[f] = "done" /\ TypedInvoke(f) /\ SlotError(f))
      => /\ outcome[f].err = stubRes[f].slot1.err
         /\ reply[f] = ReplyInit

C6_Witness ==
  \E f \in Flows :
    /\ pc[f] = "done" /\ TypedInvoke(f) /\ SlotError(f)
    /\ stubRes[f].slot0 # ReplyInit
    /\ stubRes[f].slot1.err = Internal

\* C7: in typed mode, when slot 1 signals no error, Invoke copies slot 0 into
\* replyTarget and returns a nil error with the attachments of slot 1 when it
\* is an ErrorWithAttachment, and with the empty, non-absent map when it is a
\* nil plain error.
C7_SuccessCopiesReply ==
  \A f \in Flows :
    (pc[f] = "done" /\ TypedInvoke(f) /\ SlotNoError(f))
      => /\ reply[f] = stubRes[f].slot0
         /\ outcome[f].err = Nil
         /\ outcome[f].attachment =
              IF stubRes[f].slot1.type = "ErrorWithAttachment"
                THEN stubRes[f].slot1.attachment
                ELSE [present |-> TRUE, kv |-> {}]

C7_Witness ==
  \E f \in Flows :
    /\ pc[f] = "done" /\ TypedInvoke(f) /\ SlotNoError(f)
    /\ stubRes[f].slot1.type = "ErrorWithAttachment"
    /\ stubRes[f].slot1.attachment.kv # {}
    /\ reply[f] = "pong"

\* C8 as claimed: the attachments returned to each caller are exactly the
\* attachments produced for that caller's own call.
C8_ExactlyOwnAttachments ==
  \A f \in Flows :
    (pc[f] = "done" /\ call[f].op \in {"Invoke", "Request"})
      => outcome[f].attachment = tres[f].attachment

\* C8, amended: the attachments returned to a caller are attachments of that
\* caller's own call only, whatever other calls are in flight: all of them
\* for Request, for a dynamic Invoke and for a typed Invoke that succeeds
\* through an ErrorWithAttachment stub, none of them for a typed Invoke whose
\* outcome carries an error or whose stub returns a plain error.
C8_OnlyOwnAttachments ==
  \A f \in Flows :
    (pc[f] = "done" /\ call[f].op \in {"Invoke", "Request"})
      => /\ outcome[f].attachment.present
         /\ outcome[f].attachment.kv \subseteq tres[f].attachment.kv
         /\ \A a \in outcome[f].attachment.kv : a[2] = sid[f]
         /\ IF TypedInvoke(f) /\ (outcome[f].err # Nil \/ stubStyle = "error")
              THEN outcome[f].attachment.kv = {}
              ELSE outcome[f].attachment = tres[f].attachment

C8_Witness ==
  \E f \in Flows, g \in Flows :
    /\ f # g
    /\ pc[f] = "done" /\ call[f].op \in {"Invoke", "Request"}
    /\ outcome[f].attachment.kv = {<<"corr", sid[f]>>}
    /\ pc[g] = "waiting" /\ sid[g] # 0
    /\ streams[sid[g]].state = "responded"
    /\ sid[f] < sid[g]

\* C9: the invocation mode is chosen at construction and never switches: the
\* stub invoker is built exactly when the codec is the protobuf one, neither it
\* nor the codec kind changes afterwards, and every Invoke takes the branch of
\* that mode, so that the typed branch never meets an unbuilt stub.
C9_ModeFixedAtConstruction ==
  /\ [](/\ stubBuilt <=> (codecType = PBCodecName)
        /\ methodTable = IF codecType = PBCodecName THEN StubMethods ELSE {}
        /\ \A f \in Flows :
             call[f].op = "Invoke" =>
               call[f].branch = IF stubBuilt THEN "typed" ELSE "dynamic")
  /\ [][client' = client]_vars

C9_Witness ==
  \E f \in Flows, g \in Flows :
    /\ f # g
    /\ pc[f] = "done" /\ TypedInvoke(f) /\ stubCalled[f] = 1
    /\ pc[g] = "done" /\ TypedInvoke(g) /\ stubCalled[g] = 1

\* C10: in typed mode every outcome of Invoke that carries an error carries
\* an empty attachment map; the attachments of a stub's ErrorWithAttachment
\* whose error is set are dropped.
C10_ErrorHasNoAttachments ==
  \A f \in Flows :
    (pc[f] = "done" /\ TypedInvoke(f) /\ outcome[f].err # Nil)
      => outcome[f].attachment = [present |-> TRUE, kv |-> {}]

C10_Witness ==
  \E f \in Flows :
    /\ pc[f] = "done" /\ TypedInvoke(f) /\ outcome[f].err # Nil
    /\ stubRes[f].slot1.type = "ErrorWithAttachment"
    /\ stubRes[f].slot1.attachment.kv # {}
====
